---- MODULE Spec2Model ----
(***************************************************************************)
(* Model of the variant-generation engine of vitrina_autopost              *)
(* (src/unique.py): the seeded parameter sampler, the ffmpeg filter-graph  *)
(* builder, the rubberband fallback retry and the temporary-directory      *)
(* scoping of uniquify_video_file / uniquify_video; and of the             *)
(* orchestration that uses it (src/auto_post.py): main's loop over the     *)
(* posts sheet, one variant per user, one upload per platform.             *)
(*                                                                         *)
(* Texts (ffmpeg's stderr/stdout, the error message) are sequences of      *)
(* one-character strings.  Real-valued parameters are fixed-point          *)
(* integers in units of 10^-4 (1.03 is 10300).                             *)
(***************************************************************************)
EXTENDS Integers, Sequences, FiniteSets, TLC

(***************************************************************************)
(* Texts                                                                   *)
(***************************************************************************)
\* 'rubberband'
S_rubberband ==
    <<"r", "u", "b", "b", "e", "r", "b", "a", "n", "d">>
\* 'no such filter'
S_no_such_filter ==
    <<"n", "o", " ", "s", "u", "c", "h", " ", "f", "i", "l", "t", "e", "r">>
\* 'filter not found'
S_filter_not_found ==
    <<"f", "i", "l", "t", "e", "r", " ", "n", "o", "t", " ", "f", "o", "u", "n", "d">>
\* 'invalid argument'
S_invalid_argument ==
    <<"i", "n", "v", "a", "l", "i", "d", " ", "a", "r", "g", "u", "m", "e", "n", "t">>
\* 'error initializing filter'
S_error_initializing_filter ==
    <<"e", "r", "r", "o", "r", " ", "i", "n", "i", "t", "i", "a", "l", "i", "z", "i", "n", "g",
      " ", "f", "i", "l", "t", "e", "r">>
\* 'ffmpeg error: '
S_ffmpeg_error ==
    <<"f", "f", "m", "p", "e", "g", " ", "e", "r", "r", "o", "r", ":", " ">>
\* 'unknown'
S_unknown ==
    <<"u", "n", "k", "n", "o", "w", "n">>
\* "No such filter: 'rubberband'"
ERR_NoSuchFilter ==
    <<"N", "o", " ", "s", "u", "c", "h", " ", "f", "i", "l", "t", "e", "r", ":", " ", "'", "r",
      "u", "b", "b", "e", "r", "b", "a", "n", "d", "'">>
\* 'RUBBERBAND: FILTER NOT FOUND'
ERR_FilterNotFound ==
    <<"R", "U", "B", "B", "E", "R", "B", "A", "N", "D", ":", " ", "F", "I", "L", "T", "E", "R",
      " ", "N", "O", "T", " ", "F", "O", "U", "N", "D">>
\* '[Parsed_rubberband_5] Invalid argument'
ERR_InvalidArgument ==
    <<"[", "P", "a", "r", "s", "e", "d", "_", "r", "u", "b", "b", "e", "r", "b", "a", "n", "d",
      "_", "5", "]", " ", "I", "n", "v", "a", "l", "i", "d", " ", "a", "r", "g", "u", "m", "e",
      "n", "t">>
\* "Error initializing filter 'rubberband'"
ERR_ErrorInitializing ==
    <<"E", "r", "r", "o", "r", " ", "i", "n", "i", "t", "i", "a", "l", "i", "z", "i", "n", "g",
      " ", "f", "i", "l", "t", "e", "r", " ", "'", "r", "u", "b", "b", "e", "r", "b", "a", "n",
      "d", "'">>
\* 'Invalid pixel format'
ERR_PixelFormat ==
    <<"I", "n", "v", "a", "l", "i", "d", " ", "p", "i", "x", "e", "l", " ", "f", "o", "r", "m",
      "a", "t">>
\* "No such filter: 'drawtext'"
ERR_OtherNoSuchFilter ==
    <<"N", "o", " ", "s", "u", "c", "h", " ", "f", "i", "l", "t", "e", "r", ":", " ", "'", "d",
      "r", "a", "w", "t", "e", "x", "t", "'">>
\* 'librubberband: out of memory'
ERR_RubberbandOnly ==
    <<"l", "i", "b", "r", "u", "b", "b", "e", "r", "b", "a", "n", "d", ":", " ", "o", "u", "t",
      " ", "o", "f", " ", "m", "e", "m", "o", "r", "y">>
\* 'conversion failed'
OUT_Text ==
    <<"c", "o", "n", "v", "e", "r", "s", "i", "o", "n", " ", "f", "a", "i", "l", "e", "d">>
EMPTY == <<>>

UpperChars ==
    <<"A", "B", "C", "D", "E", "F", "G", "H", "I", "J", "K", "L", "M",
      "N", "O", "P", "Q", "R", "S", "T", "U", "V", "W", "X", "Y", "Z">>
LowerChars ==
    <<"a", "b", "c", "d", "e", "f", "g", "h", "i", "j", "k", "l", "m",
      "n", "o", "p", "q", "r", "s", "t", "u", "v", "w", "x", "y", "z">>

\* str.lower() on one character
LowerChar(c) ==
    IF \E i \in 1..Len(UpperChars) : UpperChars[i] = c
    THEN LowerChars[CHOOSE i \in 1..Len(UpperChars) : UpperChars[i] = c]
    ELSE c

\* str.lower()
Lower(s) == [i \in 1..Len(s) |-> LowerChar(s[i])]

\* Python's `sub in s` on strings
Contains(s, sub) ==
    \E i \in 0..(Len(s) - Len(sub)) :
        \A j \in 1..Len(sub) : s[i + j] = sub[j]

\* unique.py: _stderr_has_rubberband_issue
_stderr_has_rubberband_issue(stderr) ==
    LET s == Lower(stderr) IN
    /\ Contains(s, S_rubberband)
    /\ \/ Contains(s, S_no_such_filter)
       \/ Contains(s, S_filter_not_found)
       \/ Contains(s, S_invalid_argument)
       \/ Contains(s, S_error_initializing_filter)

(***************************************************************************)
(* Sampling policy (module constants of unique.py), in units of 10^-4      *)
(***************************************************************************)
SPEED_RANGE == <<10300, 10700>>
BRIGHTNESS_RANGE == <<200, 600>>
CONTRAST_RANGE == <<10600, 11200>>
SATURATION_RANGE == <<10300, 11000>>
SHARPEN_PROB == 8000
UNSHARP_RANGE == <<8000, 11500>>
\* integer-valued ranges are plain integers
LOGO_HEIGHT_RANGE == <<120, 170>>
LOGO_MARGIN_RANGE == <<8, 30>>
LOGO_POSITIONS == <<"tl", "tr", "bl", "br">>
TEXT_FONTSIZE_RANGE == <<22, 30>>
TEXT_MARGIN_RANGE == <<10, 28>>
METADATA_MODES == <<"remove", "set">>
AUDIO_VOLUME_RANGE == <<9700, 10300>>
AUDIO_HIGHPASS_RANGE == <<40, 90>>
AUDIO_LOWPASS_RANGE == <<14500, 18000>>
AUDIO_EQ_FREQ_RANGE == <<800, 3000>>
AUDIO_EQ_GAIN_RANGE == <<-15000, 15000>>
AUDIO_PITCH_RANGE == <<9850, 10150>>
USE_RUBBERBAND == TRUE
SKIP_IF_EXISTS == TRUE
AUDIO_ENABLE_DEFAULT == TRUE

\* one unit of the fixed-point scale: 10^-4
SCALE == 10 ^ 4

(***************************************************************************)
(* The random source.  random.Random is modelled as a full-period linear   *)
(* congruential generator on RngBits bits: the state after a step is the   *)
(* value drawn, and random() is state / 2^RngBits, a number in [0, 1).     *)
(***************************************************************************)
RngBits == 7
RngMod == 2 ^ RngBits
RngStates == 0..(RngMod - 1)

RngStep(x) == (37 * x + 11) % RngMod

RECURSIVE RngAt(_, _)
\* the state after k draws from state x; it is also the k-th value drawn
RngAt(x, k) == IF k = 0 THEN x ELSE RngStep(RngAt(x, k - 1))

\* random.Random(seed): the state a seed initialises
SeedState(seed) == (73 * seed + 29) % RngMod

\* round(n / d) to the nearest integer, ties to even (Python's round), d > 0
RoundDiv(n, d) ==
    LET q == n \div d
        r == n % d
    IN  IF 2 * r < d THEN q
        ELSE IF 2 * r > d THEN q + 1
        ELSE IF q % 2 = 0 THEN q ELSE q + 1

\* round(rng.uniform(a, b), digits) for the draw x: a + (b-a) * x / RngMod,
\* rounded to `digits` decimals (the result stays in units of 10^-4)
RoundUniform(range, digits, x) ==
    LET u == 10 ^ (4 - digits)
        num == range[1] * RngMod + (range[2] - range[1]) * x
    IN  RoundDiv(num, RngMod * u) * u

\* rng.randint(a, b) for the draw x
RandInt(range, x) == range[1] + (x * (range[2] - range[1] + 1)) \div RngMod

\* rng.choice(seq) for the draw x
Choice(seq, x) == seq[1 + (x * Len(seq)) \div RngMod]

\* the number of draws _pick_params makes
PICK_DRAWS == 18

\* A sampler that draws the saturation from the contrast range.
PickParamsCopyPaste(x) ==
    [speed |-> RoundUniform(SPEED_RANGE, 3, RngAt(x, 1)),
     brightness |-> RoundUniform(BRIGHTNESS_RANGE, 3, RngAt(x, 2)),
     contrast |-> RoundUniform(CONTRAST_RANGE, 3, RngAt(x, 3)),
     saturation |-> RoundUniform(CONTRAST_RANGE, 3, RngAt(x, 4)),
     apply_sharpen |-> RngAt(x, 5) * SCALE < SHARPEN_PROB * RngMod,
     sharpen_strength |-> RoundUniform(UNSHARP_RANGE, 2, RngAt(x, 6)),
     logo_height |-> RandInt(LOGO_HEIGHT_RANGE, RngAt(x, 7)),
     logo_margin |-> RandInt(LOGO_MARGIN_RANGE, RngAt(x, 8)),
     logo_pos |-> Choice(LOGO_POSITIONS, RngAt(x, 9)),
     text_size |-> RandInt(TEXT_FONTSIZE_RANGE, RngAt(x, 10)),
     text_margin |-> RandInt(TEXT_MARGIN_RANGE, RngAt(x, 11)),
     meta_mode |-> Choice(METADATA_MODES, RngAt(x, 12)),
     vol |-> RoundUniform(AUDIO_VOLUME_RANGE, 3, RngAt(x, 13)),
     hp |-> RandInt(AUDIO_HIGHPASS_RANGE, RngAt(x, 14)),
     lp |-> RandInt(AUDIO_LOWPASS_RANGE, RngAt(x, 15)),
     eqf |-> RandInt(AUDIO_EQ_FREQ_RANGE, RngAt(x, 16)),
     eqg |-> RoundUniform(AUDIO_EQ_GAIN_RANGE, 2, RngAt(x, 17)),
     pitch |-> RoundUniform(AUDIO_PITCH_RANGE, 4, RngAt(x, 18))]

\* unique.py: _pick_params, for a generator in state x
_pick_params(x) ==
    [speed |-> RoundUniform(SPEED_RANGE, 3, RngAt(x, 1)),
     brightness |-> RoundUniform(BRIGHTNESS_RANGE, 3, RngAt(x, 2)),
     contrast |-> RoundUniform(CONTRAST_RANGE, 3, RngAt(x, 3)),
     saturation |-> RoundUniform(SATURATION_RANGE, 3, RngAt(x, 4)),
     apply_sharpen |-> RngAt(x, 5) * SCALE < SHARPEN_PROB * RngMod,
     sharpen_strength |-> RoundUniform(UNSHARP_RANGE, 2, RngAt(x, 6)),
     logo_height |-> RandInt(LOGO_HEIGHT_RANGE, RngAt(x, 7)),
     logo_margin |-> RandInt(LOGO_MARGIN_RANGE, RngAt(x, 8)),
     logo_pos |-> Choice(LOGO_POSITIONS, RngAt(x, 9)),
     text_size |-> RandInt(TEXT_FONTSIZE_RANGE, RngAt(x, 10)),
     text_margin |-> RandInt(TEXT_MARGIN_RANGE, RngAt(x, 11)),
     meta_mode |-> Choice(METADATA_MODES, RngAt(x, 12)),
     vol |-> RoundUniform(AUDIO_VOLUME_RANGE, 3, RngAt(x, 13)),
     hp |-> RandInt(AUDIO_HIGHPASS_RANGE, RngAt(x, 14)),
     lp |-> RandInt(AUDIO_LOWPASS_RANGE, RngAt(x, 15)),
     eqf |-> RandInt(AUDIO_EQ_FREQ_RANGE, RngAt(x, 16)),
     eqg |-> RoundUniform(AUDIO_EQ_GAIN_RANGE, 2, RngAt(x, 17)),
     pitch |-> RoundUniform(AUDIO_PITCH_RANGE, 4, RngAt(x, 18))]

\* the seeds callers pass; NoSeed is Python's seed=None
NoSeed == -1
MaxSeed == 2
Seeds == 0..MaxSeed

\* A sampler that draws from the process-wide source even when a seed is given.
SampleIgnoringSeed(seed, g) ==
    [params |-> _pick_params(g), rng |-> RngAt(g, PICK_DRAWS)]

\* unique.py 257-258: rng = random.Random(seed) if seed is not None else random;
\* params = _pick_params(rng).  g is the state of the process-wide source;
\* the result carries its state afterwards.
SampleParams(seed, g) ==
    IF seed # NoSeed
    THEN [params |-> _pick_params(SeedState(seed)), rng |-> g]
    ELSE [params |-> _pick_params(g), rng |-> RngAt(g, PICK_DRAWS)]

(***************************************************************************)
(* Paths and the file system.  A path is [dir, name]: dir is 0 for a path  *)
(* outside any temporary directory and the directory's id for a path in a  *)
(* temporary directory.  The disk maps each existing file to its content.  *)
(***************************************************************************)
NoPath == [dir |-> 0, name |-> ""]
INPUT == [dir |-> 0, name |-> "source.mp4"]
DEST == [dir |-> 0, name |-> "variant.mp4"]
LOGO == [dir |-> 0, name |-> "logo.png"]
LOGO_MISSING == [dir |-> 0, name |-> "no_logo.png"]
FONT == [dir |-> 0, name |-> "font.ttf"]
FONT_MISSING == [dir |-> 0, name |-> "no_font.ttf"]
\* Path(__file__).parent / "Arial.ttf"
ARIAL == [dir |-> 0, name |-> "Arial.ttf"]
InTmp(d, n) == [dir |-> d, name |-> n]

NoText == ""
TEXT == "vitrina"

\* Path.is_file()
is_file(disk, p) == p \in DOMAIN disk

\* the disk with file p holding content c
WriteFile(disk, p, c) == [q \in (DOMAIN disk) \cup {p} |-> IF q = p THEN c ELSE disk[q]]

\* the disk without the files of temporary directory d (shutil.rmtree)
RmTree(disk, d) == [q \in {r \in DOMAIN disk : r.dir # d} |-> disk[q]]

(***************************************************************************)
(* The filter graph.  A node is [ins, ops, out]: the references it reads,  *)
(* the filters it applies in order, and the label it produces.  A          *)
(* reference is a label of the graph ([v0]) or a stream of a declared      *)
(* input ([0:v], 0:a?).                                                    *)
(***************************************************************************)
Lbl(n) == [kind |-> "label", input |-> 0, name |-> n, optional |-> FALSE]
Stream(i, t, opt) == [kind |-> "stream", input |-> i, name |-> t, optional |-> opt]

Filter(n, a) == [name |-> n, args |-> a]

\* unique.py: _overlay_expr; xright/ybottom say whether the coordinate is
\* measured from the right (W-w-margin) / bottom (H-h-margin) edge
_overlay_expr(pos, margin) ==
    CASE pos = "tl" -> [xright |-> FALSE, ybottom |-> FALSE, margin |-> margin]
      [] pos = "tr" -> [xright |-> TRUE, ybottom |-> FALSE, margin |-> margin]
      [] pos = "bl" -> [xright |-> FALSE, ybottom |-> TRUE, margin |-> margin]
      [] pos = "br" -> [xright |-> TRUE, ybottom |-> TRUE, margin |-> margin]
      [] OTHER -> [xright |-> FALSE, ybottom |-> FALSE, margin |-> margin]

\* unique.py 155-166: the base video chain, [0:v]...[v0]
VideoNode(params) ==
    LET vf_chain ==
            << Filter("setpts", <<params.speed>>),
               Filter("scale", <<>>),
               Filter("crop", <<>>),
               Filter("eq", <<params.brightness, params.contrast, params.saturation>>) >>
            \o (IF params.apply_sharpen
                THEN << Filter("unsharp", <<params.sharpen_strength>>) >>
                ELSE << >>)
    IN  [ins |-> << Stream(0, "v", FALSE) >>, ops |-> vf_chain, out |-> "v0"]

\* A logo test that does not look at the file.
HasLogoIgnoringFile(disk, logo_path) == logo_path # NoPath

\* unique.py 169: logo_path and logo_path.is_file()
HasLogo(disk, logo_path) == logo_path # NoPath /\ is_file(disk, logo_path)

\* unique.py 176: overlay_text and font_path and font_path.is_file()
HasText(disk, overlay_text, font_path) ==
    overlay_text # NoText /\ font_path # NoPath /\ is_file(disk, font_path)

\* unique.py 171-172: the two logo nodes, reading [1:v] and [vcur]
LogoNodes(params, vcur) ==
    << [ins |-> << Stream(1, "v", FALSE) >>,
        ops |-> << Filter("scale", <<params.logo_height>>) >>,
        out |-> "logo"],
       [ins |-> << Lbl(vcur), Lbl("logo") >>,
        ops |-> << [name |-> "overlay",
                    args |-> _overlay_expr(params.logo_pos, params.logo_margin)] >>,
        out |-> "v1"] >>

\* A drawtext node that always reads the label the logo overlay produces.
TextNodeAfterLogo(params, vcur, font_path, td) ==
    [ins |-> << Lbl("v1") >>,
     ops |-> << [name |-> "drawtext",
                 args |-> [fontfile |-> font_path, textfile |-> InTmp(td, "text.txt"),
                           fontsize |-> params.text_size, margin |-> params.text_margin]] >>,
     out |-> "vout"]

\* unique.py 177-184: the drawtext node
TextNode(params, vcur, font_path, td) ==
    [ins |-> << Lbl(vcur) >>,
     ops |-> << [name |-> "drawtext",
                 args |-> [fontfile |-> font_path, textfile |-> InTmp(td, "text.txt"),
                           fontsize |-> params.text_size, margin |-> params.text_margin]] >>,
     out |-> "vout"]

\* An audio chain that loses the equalizer together with the rubberband stage.
AudioNodeRetryShort(params, use_rubberband) ==
    [ins |-> << Stream(0, "a", FALSE) >>,
     ops |-> << Filter("atempo", <<params.speed>>),
                Filter("volume", <<params.vol>>),
                Filter("highpass", <<params.hp>>),
                Filter("lowpass", <<params.lp>>) >>
             \o (IF use_rubberband
                 THEN << Filter("equalizer", <<params.eqf, params.eqg>>),
                         Filter("rubberband", <<params.pitch>>) >>
                 ELSE << >>),
     out |-> "aout"]

\* An audio chain that keeps the rubberband stage whatever the flag says.
AudioNodeAlwaysPitch(params, use_rubberband) ==
    [ins |-> << Stream(0, "a", FALSE) >>,
     ops |-> << Filter("atempo", <<params.speed>>),
                Filter("volume", <<params.vol>>),
                Filter("highpass", <<params.hp>>),
                Filter("lowpass", <<params.lp>>),
                Filter("equalizer", <<params.eqf, params.eqg>>),
                Filter("rubberband", <<params.pitch>>) >>,
     out |-> "aout"]

\* unique.py 189-198: the audio chain, [0:a]...[aout]
AudioNode(params, use_rubberband) ==
    [ins |-> << Stream(0, "a", FALSE) >>,
     ops |-> << Filter("atempo", <<params.speed>>),
                Filter("volume", <<params.vol>>),
                Filter("highpass", <<params.hp>>),
                Filter("lowpass", <<params.lp>>),
                Filter("equalizer", <<params.eqf, params.eqg>>) >>
             \o (IF use_rubberband
                 THEN << Filter("rubberband", <<params.pitch>>) >>
                 ELSE << >>),
     out |-> "aout"]

\* An audio test that does not look at the probe's answer.
AudioActiveIgnoringProbe(audio_enabled, audio_present) == audio_enabled

\* unique.py 188, 214: audio_enabled and audio_present
AudioActive(audio_enabled, audio_present) == audio_enabled /\ audio_present

\* unique.py 203-206: the metadata arguments; tag is the value the
\* process-wide random.randint(100000, 999999) returns
MetaArgs(params, tag) ==
    IF params.meta_mode = "remove"
    THEN [map_metadata |-> -1, comment |-> << >>]
    ELSE [map_metadata |-> -1, comment |-> << tag >>]

\* unique.py 206: random.randint(100000, 999999) on the process-wide source
MetaTag(g) == 100000 + (RngStep(g) * 900000) \div RngMod

\* unique.py: _build_cmd.  The result is the argument list as a record:
\* the -i inputs, the nodes of -filter_complex, the -map directives, the
\* metadata arguments and the output path.
_build_cmd(disk, inp_path, out_path, params, logo_path, overlay_text, font_path, audio_enabled, audio_present, use_rubberband, td, tag) ==
    LET logo == HasLogo(disk, logo_path)
        text == HasText(disk, overlay_text, font_path)
        audio == AudioActive(audio_enabled, audio_present)
        v_logo == IF logo THEN "v1" ELSE "v0"
        vcur == IF text THEN "vout" ELSE v_logo
        fc_parts ==
            << VideoNode(params) >>
            \o (IF logo THEN LogoNodes(params, "v0") ELSE << >>)
            \o (IF text THEN << TextNode(params, v_logo, font_path, td) >> ELSE << >>)
            \o (IF audio THEN << AudioNode(params, use_rubberband) >> ELSE << >>)
    IN  [inputs |-> << inp_path >> \o (IF logo THEN << logo_path >> ELSE << >>),
         fc_parts |-> fc_parts,
         maps |-> << Lbl(vcur),
                     IF audio THEN Lbl("aout") ELSE Stream(0, "a", TRUE) >>,
         meta |-> MetaArgs(params, tag),
         out |-> out_path]

(***************************************************************************)
(* The external tools.  An outcome of ffmpeg is its exit code and the text *)
(* it wrote to stderr and stdout (subprocess.CompletedProcess).            *)
(***************************************************************************)
Outcome(rc, err, out) == [returncode |-> rc, stderr |-> err, stdout |-> out]

StderrTexts ==
    { EMPTY, ERR_NoSuchFilter, ERR_FilterNotFound, ERR_InvalidArgument,
      ERR_ErrorInitializing, ERR_PixelFormat, ERR_OtherNoSuchFilter, ERR_RubberbandOnly }

\* what a run of ffmpeg can end with: success (with or without log text on
\* stderr), or failure with any of the diagnostics; stdout is empty except
\* for one failure without any stderr text
Outcomes ==
    { Outcome(0, EMPTY, EMPTY), Outcome(0, ERR_NoSuchFilter, EMPTY) }
    \cup { Outcome(1, e, EMPTY) : e \in StderrTexts }
    \cup { Outcome(1, EMPTY, OUT_Text) }

\* what the run after the fallback can end with
RetryOutcomes ==
    { Outcome(0, EMPTY, EMPTY), Outcome(1, ERR_NoSuchFilter, EMPTY),
      Outcome(1, ERR_PixelFormat, EMPTY), Outcome(1, EMPTY, OUT_Text),
      Outcome(1, EMPTY, EMPTY) }

\* the content ffmpeg -y leaves at its output path: a complete file when
\* it exits 0; when it fails, what was there before (it failed before it
\* opened the output) or a partially written file
OutputAfter(disk, out_path, rc, wrote) ==
    IF rc = 0 THEN WriteFile(disk, out_path, "complete")
    ELSE IF wrote THEN WriteFile(disk, out_path, "partial")
    ELSE disk

\* Python: p.stderr or p.stdout or 'unknown'
Diagnostic(p) ==
    IF p.stderr # EMPTY THEN p.stderr
    ELSE IF p.stdout # EMPTY THEN p.stdout
    ELSE S_unknown

\* An error message built from the first attempt's outcome.
ErrorOfFirst(outs) ==
    [kind |-> "raised", exc |-> "RuntimeError",
     msg |-> S_ffmpeg_error \o Diagnostic(outs[1]), path |-> NoPath, bytes |-> ""]

\* unique.py 299: RuntimeError(f"ffmpeg error: {p.stderr or p.stdout or 'unknown'}")
\* for p, the outcome of the last run
TranscodeError(outs) ==
    [kind |-> "raised", exc |-> "RuntimeError",
     msg |-> S_ffmpeg_error \o Diagnostic(outs[Len(outs)]), path |-> NoPath, bytes |-> ""]

\* a failure of the operating system (write_text, read_bytes)
OSError == [kind |-> "raised", exc |-> "OSError", msg |-> EMPTY, path |-> NoPath, bytes |-> ""]

\* unique.py 249, 301: return output_path
Returned(path) ==
    [kind |-> "returned", exc |-> "", msg |-> EMPTY, path |-> path, bytes |-> ""]

\* unique.py 339: return out_path.read_bytes()
ReturnedBytes(content) ==
    [kind |-> "returned", exc |-> "", msg |-> EMPTY, path |-> NoPath, bytes |-> content]

NoResult == [kind |-> "none", exc |-> "", msg |-> EMPTY, path |-> NoPath, bytes |-> ""]

\* A retry test that does not look at the exit code.
ShouldFallbackIgnoringExit(p, use_rb, audio_enabled, audio_present) ==
    /\ use_rb
    /\ audio_enabled
    /\ audio_present
    /\ _stderr_has_rubberband_issue(p.stderr)

\* unique.py 283: the condition of the retry without rubberband
ShouldFallback(p, use_rb, audio_enabled, audio_present) ==
    /\ p.returncode # 0
    /\ use_rb
    /\ audio_enabled
    /\ audio_present
    /\ _stderr_has_rubberband_issue(p.stderr)

(***************************************************************************)
(* State                                                                   *)
(***************************************************************************)
VARIABLES
    pc,             \* "idle", "probe", "run1", "run2", "done"
    call,           \* the arguments of the call in progress
    font,           \* font_path after lines 251-253
    params,         \* the Parameter Set of the call
    audio_present,  \* the probe's answer
    use_rb,         \* use_rubberband of the last build
    td,             \* the call's temporary directory (0: none)
    cmd,            \* the argument list last built
    invoked,        \* the argument lists ffmpeg was run with, in order
    outs,           \* the outcomes of those runs, in order
    result,         \* how uniquify_video_file ended
    wresult,        \* how the bytes wrapper uniquify_video ended
    stats,          \* per call: probes run, samplings, builds, directories made
    disk,           \* the files that exist, with their content
    tmpDirs,        \* the temporary directories that exist
    rng,            \* the state of the process-wide random source
    ncalls,         \* calls started so far
    seen,           \* the samplings so far, in order: [seed, params]
    \* auto_post.main
    mpc,            \* where main is: "off", "start", "loop", "download", "user",
                    \* "platform", "finished", "aborted"
    env,            \* the configuration and what the run finds: flags, setup sheet, clock
    row,            \* the posts row main is at: its cells as read and as they are now
    history,        \* the records appended to the history sheet for that row
    loc,            \* main's local variables
    log             \* for that row: the calls of uniquify_video_file and of the upload

vars ==
    << pc, call, font, params, audio_present, use_rb, td, cmd, invoked, outs, result,
       wresult, stats, disk, tmpDirs, rng, ncalls, seen, mpc, env, row, history, loc, log >>

\* the variables of the engine and those of auto_post.main
engineVars ==
    << pc, call, font, params, audio_present, use_rb, td, cmd, invoked, outs, result,
       wresult, stats, disk, tmpDirs, rng, ncalls, seen >>
mainVars == << mpc, env, row, history, loc, log >>

\* the engine used on its own: main does not run
MainNotRunning ==
    /\ mpc = "off"
    /\ env = << >>
    /\ row = << >>
    /\ history = << >>
    /\ loc = << >>
    /\ log = << >>

MaxCalls == 2
MaxSamples == 3

NoParams ==
    [speed |-> 0, brightness |-> 0, contrast |-> 0, saturation |-> 0,
     apply_sharpen |-> FALSE, sharpen_strength |-> 0, logo_height |-> 0,
     logo_margin |-> 0, logo_pos |-> "", text_size |-> 0, text_margin |-> 0,
     meta_mode |-> "", vol |-> 0, hp |-> 0, lp |-> 0, eqf |-> 0, eqg |-> 0, pitch |-> 0]

NoCmd ==
    [inputs |-> << >>, fc_parts |-> << >>, maps |-> << >>,
     meta |-> [map_metadata |-> -1, comment |-> << >>], out |-> NoPath]

NoCall ==
    [entry |-> "none", outer |-> 0, input_path |-> NoPath, output_path |-> NoPath,
     seed |-> NoSeed, skip_if_exists |-> FALSE, logo_path |-> NoPath,
     overlay_text |-> NoText, font_path |-> NoPath, audio_enabled |-> FALSE,
     before |-> << >>]

NoStats == [probes |-> 0, samples |-> 0, builds |-> 0, tmps |-> 0]

\* the files present before any call: the source video and the assets;
\* the repository may or may not ship Arial.ttf beside the module
DiskWith(arial) ==
    [q \in {INPUT, LOGO, FONT} \cup (IF arial THEN {ARIAL} ELSE {}) |->
        IF q = INPUT THEN "source" ELSE "asset"]

\* tempfile.mkdtemp: a directory that does not exist yet (the least unused id)
NewTmp(dirs) == CHOOSE i \in 1..(Cardinality(dirs) + 1) :
                    i \notin dirs /\ \A j \in 1..(i - 1) : j \in dirs

Init ==
    /\ pc = "idle"
    /\ call = NoCall
    /\ font = NoPath
    /\ params = NoParams
    /\ audio_present = FALSE
    /\ use_rb = FALSE
    /\ td = 0
    /\ cmd = NoCmd
    /\ invoked = << >>
    /\ outs = << >>
    /\ result = NoResult
    /\ wresult = NoResult
    /\ stats = NoStats
    /\ \E arial \in BOOLEAN : disk = DiskWith(arial)
    /\ tmpDirs = {}
    \* one state of the process-wide source; SpecSampler starts from every state
    /\ rng = 0
    /\ ncalls = 0
    /\ seen = << >>
    /\ MainNotRunning

(***************************************************************************)
(* uniquify_video_file and uniquify_video                                  *)
(***************************************************************************)

\* An exit from the temporary-directory scope that leaves the directory
\* behind when the call raises.
LeaveScopeLeakOnRaise(d, dirs, tdir, res) ==
    IF res.kind = "raised"
    THEN [disk |-> d, tmpDirs |-> dirs]
    ELSE [disk |-> RmTree(d, tdir), tmpDirs |-> dirs \ {tdir}]

\* unique.py 263, 319: leaving `with tempfile.TemporaryDirectory()` with
\* result res deletes the directory and everything in it
LeaveScope(d, dirs, tdir, res) ==
    [disk |-> RmTree(d, tdir), tmpDirs |-> dirs \ {tdir}]

\* The end of uniquify_video_file with result res, on disk d with the
\* directories dirs.  A file-to-file call ends there.  The bytes wrapper
\* (unique.py 329-339) then reads the output back, unless the call raised,
\* and leaves its own directory.
EndCall(frame, res, d, dirs) ==
    /\ pc' = "done"
    /\ td' = 0
    /\ result' = res
    /\ IF frame.entry = "file"
       THEN /\ wresult' = NoResult
            /\ disk' = d
            /\ tmpDirs' = dirs
       ELSE \E readFails \in BOOLEAN :
            LET wres == IF res.kind = "raised" THEN res
                        ELSE IF readFails \/ ~is_file(d, frame.output_path) THEN OSError
                        ELSE ReturnedBytes(d[frame.output_path])
                left == LeaveScope(d, dirs, frame.outer, wres)
            IN  /\ wresult' = wres
                /\ disk' = left.disk
                /\ tmpDirs' = left.tmpDirs

\* A short-circuit test with the existence check inverted.
ShortCircuitIfMissing(d, frame) == frame.skip_if_exists /\ ~is_file(d, frame.output_path)

\* unique.py 248: skip_if_exists and output_path.is_file()
ShortCircuit(d, frame) == frame.skip_if_exists /\ is_file(d, frame.output_path)

\* unique.py 251-253: the font used when the caller names none
DefaultFont(d, font_path) ==
    IF font_path = NoPath
    THEN (IF is_file(d, ARIAL) THEN ARIAL ELSE NoPath)
    ELSE font_path

\* unique.py 245-258: the call up to the sampling of its Parameter Set, on
\* disk d with the directories dirs
Begin(frame, d, dirs) ==
    IF ShortCircuit(d, frame)
    THEN /\ EndCall(frame, Returned(frame.output_path), d, dirs)
         /\ font' = NoPath
         /\ params' = NoParams
         /\ stats' = NoStats
         /\ rng' = rng
    ELSE /\ font' = DefaultFont(d, frame.font_path)
         /\ LET s == SampleParams(frame.seed, rng)
            IN  params' = s.params /\ rng' = s.rng
         /\ stats' = [NoStats EXCEPT !.samples = 1]
         /\ pc' = "probe"
         /\ td' = 0
         /\ result' = NoResult
         /\ wresult' = NoResult
         /\ disk' = d
         /\ tmpDirs' = dirs

CallSeeds == {NoSeed, 0}
LogoArgs == {NoPath, LOGO, LOGO_MISSING}
TextArgs == {NoText, TEXT}
FontArgs == {NoPath, FONT, FONT_MISSING}

\* a call of uniquify_video_file(INPUT, DEST, ...)
Call_uniquify_video_file ==
    /\ pc = "idle"
    /\ ncalls < MaxCalls
    /\ \E seed \in CallSeeds, skip \in BOOLEAN, logo \in LogoArgs, text \in TextArgs,
          fnt \in FontArgs, ae \in BOOLEAN :
        LET frame == [entry |-> "file", outer |-> 0, input_path |-> INPUT,
                      output_path |-> DEST, seed |-> seed, skip_if_exists |-> skip,
                      logo_path |-> logo, overlay_text |-> text, font_path |-> fnt,
                      audio_enabled |-> ae, before |-> disk]
        IN  /\ call' = frame
            /\ Begin(frame, disk, tmpDirs)
    /\ ncalls' = ncalls + 1
    /\ audio_present' = FALSE
    /\ use_rb' = FALSE
    /\ cmd' = NoCmd
    /\ invoked' = << >>
    /\ outs' = << >>
    /\ UNCHANGED seen
    /\ UNCHANGED mainVars

\* unique.py 319-338: a call of uniquify_video(bytes, ...), with
\* output_path=DEST or without output_path
Call_uniquify_video ==
    /\ pc = "idle"
    /\ ncalls < MaxCalls
    /\ \E seed \in CallSeeds, skip \in BOOLEAN, ae \in BOOLEAN, given \in BOOLEAN :
        LET outer == NewTmp(tmpDirs)
            inp == InTmp(outer, "in.mp4")
            d == WriteFile(disk, inp, "source")
            frame == [entry |-> "bytes", outer |-> outer, input_path |-> inp,
                      output_path |-> IF given THEN DEST ELSE InTmp(outer, "out.mp4"),
                      seed |-> seed, skip_if_exists |-> skip,
                      logo_path |-> NoPath, overlay_text |-> NoText, font_path |-> NoPath,
                      audio_enabled |-> ae, before |-> d]
        IN  /\ call' = frame
            /\ Begin(frame, d, tmpDirs \cup {outer})
    /\ ncalls' = ncalls + 1
    /\ audio_present' = FALSE
    /\ use_rb' = FALSE
    /\ cmd' = NoCmd
    /\ invoked' = << >>
    /\ outs' = << >>
    /\ UNCHANGED seen
    /\ UNCHANGED mainVars

\* A build that samples a Parameter Set of its own instead of using prm.
BuildResampling(d, g, frame, fnt, prm, ap, use_rubberband, tdir) ==
    LET text == HasText(d, frame.overlay_text, fnt)
        own == _pick_params(g)
    IN  [cmd |-> _build_cmd(d, frame.input_path, frame.output_path, own,
                            frame.logo_path, frame.overlay_text, fnt,
                            frame.audio_enabled, ap, use_rubberband, tdir, MetaTag(g)),
         writes |-> text,
         disk |-> IF text THEN WriteFile(d, InTmp(tdir, "text.txt"), "text") ELSE d,
         rng |-> RngAt(g, PICK_DRAWS)]

\* unique.py 268-279, 284-295: one call of _build_cmd from disk d and the
\* process-wide source in state g: the argument list, the disk with text.txt
\* written when the text is drawn, and the source's state afterwards
Build(d, g, frame, fnt, prm, ap, use_rubberband, tdir) ==
    LET text == HasText(d, frame.overlay_text, fnt)
        set == prm.meta_mode # "remove"
    IN  [cmd |-> _build_cmd(d, frame.input_path, frame.output_path, prm,
                            frame.logo_path, frame.overlay_text, fnt,
                            frame.audio_enabled, ap, use_rubberband, tdir, MetaTag(g)),
         writes |-> text,
         disk |-> IF text THEN WriteFile(d, InTmp(tdir, "text.txt"), "text") ELSE d,
         rng |-> IF set THEN RngStep(g) ELSE g]

\* unique.py 260-279: the probe, the temporary directory and the first build
ProbeAndBuild ==
    /\ pc = "probe"
    /\ \E ap \in BOOLEAN, writeFails \in BOOLEAN :
        LET tdir == NewTmp(tmpDirs)
            dirs == tmpDirs \cup {tdir}
            b == Build(disk, rng, call, font, params, ap, USE_RUBBERBAND, tdir)
        IN  /\ writeFails => b.writes
            /\ audio_present' = ap
            /\ use_rb' = USE_RUBBERBAND
            /\ stats' = [stats EXCEPT !.probes = @ + 1, !.tmps = @ + 1, !.builds = @ + 1]
            /\ IF writeFails
               THEN \* write_text raised: the exception leaves the scope
                    LET left == LeaveScope(disk, dirs, tdir, OSError)
                    IN  /\ EndCall(call, OSError, left.disk, left.tmpDirs)
                        /\ cmd' = NoCmd
                        /\ rng' = rng
               ELSE /\ cmd' = b.cmd
                    /\ rng' = b.rng
                    /\ disk' = b.disk
                    /\ tmpDirs' = dirs
                    /\ td' = tdir
                    /\ pc' = "run1"
                    /\ UNCHANGED << result, wresult >>
    /\ UNCHANGED << call, font, params, invoked, outs, ncalls, seen >>
    /\ UNCHANGED mainVars

\* unique.py 298-301: after the last run, raise on a non-zero exit code or
\* return output_path; either way the scope of the directory is left
Finish(outs1, d) ==
    LET p == outs1[Len(outs1)]
        res == IF p.returncode # 0 THEN TranscodeError(outs1)
               ELSE Returned(call.output_path)
        left == LeaveScope(d, tmpDirs, td, res)
    IN  EndCall(call, res, left.disk, left.tmpDirs)

\* unique.py 280-301: the first run of ffmpeg, and what follows it
Run1 ==
    /\ pc = "run1"
    /\ \E o \in Outcomes, wrote \in BOOLEAN, writeFails \in BOOLEAN :
        LET d1 == OutputAfter(disk, call.output_path, o.returncode, wrote)
            outs1 == Append(outs, o)
            b == Build(d1, rng, call, font, params, audio_present, FALSE, td)
        IN  /\ wrote => o.returncode # 0
            /\ invoked' = Append(invoked, cmd)
            /\ outs' = outs1
            /\ IF ShouldFallback(o, use_rb, call.audio_enabled, audio_present)
               THEN /\ writeFails => b.writes
                    /\ stats' = [stats EXCEPT !.builds = @ + 1]
                    /\ IF writeFails
                       THEN LET left == LeaveScope(d1, tmpDirs, td, OSError)
                            IN  /\ EndCall(call, OSError, left.disk, left.tmpDirs)
                                /\ UNCHANGED << cmd, rng >>
                       ELSE /\ cmd' = b.cmd
                            /\ rng' = b.rng
                            /\ disk' = b.disk
                            /\ pc' = "run2"
                            /\ UNCHANGED << td, tmpDirs, result, wresult >>
               ELSE /\ ~writeFails
                    /\ Finish(outs1, d1)
                    /\ UNCHANGED << cmd, rng, stats >>
    /\ UNCHANGED << call, font, params, audio_present, use_rb, ncalls, seen >>
    /\ UNCHANGED mainVars

\* unique.py 296-301: the run of the rebuilt command, and what follows it
Run2 ==
    /\ pc = "run2"
    /\ \E o \in RetryOutcomes, wrote \in BOOLEAN :
        LET d1 == OutputAfter(disk, call.output_path, o.returncode, wrote)
            outs1 == Append(outs, o)
        IN  /\ wrote => o.returncode # 0
            /\ invoked' = Append(invoked, cmd)
            /\ outs' = outs1
            /\ Finish(outs1, d1)
    /\ UNCHANGED << call, font, params, audio_present, use_rb, cmd, rng, stats, ncalls, seen >>
    /\ UNCHANGED mainVars

\* the caller takes the result; the call's frame is gone
Return ==
    /\ pc = "done"
    /\ pc' = "idle"
    /\ call' = NoCall
    /\ font' = NoPath
    /\ params' = NoParams
    /\ audio_present' = FALSE
    /\ use_rb' = FALSE
    /\ cmd' = NoCmd
    /\ invoked' = << >>
    /\ outs' = << >>
    /\ result' = NoResult
    /\ wresult' = NoResult
    /\ stats' = NoStats
    /\ UNCHANGED << td, disk, tmpDirs, rng, ncalls, seen >>
    /\ UNCHANGED mainVars

Next ==
    \/ Call_uniquify_video_file
    \/ Call_uniquify_video
    \/ ProbeAndBuild
    \/ Run1
    \/ Run2
    \/ Return

Spec == Init /\ [][Next]_vars

(***************************************************************************)
(* The sampler on its own: samplings with and without a seed, interleaved  *)
(* with other draws from the process-wide source, from any state of it.    *)
(***************************************************************************)
InitSampler ==
    /\ pc = "idle"
    /\ call = NoCall
    /\ font = NoPath
    /\ params = NoParams
    /\ audio_present = FALSE
    /\ use_rb = FALSE
    /\ td = 0
    /\ cmd = NoCmd
    /\ invoked = << >>
    /\ outs = << >>
    /\ result = NoResult
    /\ wresult = NoResult
    /\ stats = NoStats
    /\ disk = DiskWith(FALSE)
    /\ tmpDirs = {}
    /\ rng \in RngStates
    /\ ncalls = 0
    /\ seen = << >>

\* unique.py 257-258 with the given seed (NoSeed: seed=None)
    /\ MainNotRunning
Sample ==
    /\ ncalls < MaxSamples
    /\ \E seed \in Seeds \cup {NoSeed} :
        LET s == SampleParams(seed, rng)
        IN  /\ params' = s.params
            /\ rng' = s.rng
            /\ seen' = Append(seen, [seed |-> seed, params |-> s.params])
    /\ ncalls' = ncalls + 1
    /\ UNCHANGED << pc, call, font, audio_present, use_rb, td, cmd, invoked, outs,
                    result, wresult, stats, disk, tmpDirs >>
    /\ UNCHANGED mainVars

\* unique.py 206: another use of the process-wide source, random.randint
UseGlobalRandom ==
    /\ ncalls < MaxSamples
    /\ rng' = RngStep(rng)
    /\ ncalls' = ncalls + 1
    /\ UNCHANGED << pc, call, font, params, audio_present, use_rb, td, cmd, invoked,
                    outs, result, wresult, stats, disk, tmpDirs, seen >>
    /\ UNCHANGED mainVars

NextSampler == Sample \/ UseGlobalRandom

SpecSampler == InitSampler /\ [][NextSampler]_vars

(***************************************************************************)
(* The builder on its own: _build_cmd applied to every combination of its  *)
(* arguments and to the Parameter Set of every state of the generator.     *)
(***************************************************************************)
InitBuild ==
    /\ pc = "args"
    /\ \E logo \in LogoArgs, text \in TextArgs, fnt \in FontArgs, ae \in BOOLEAN :
        /\ call = [NoCall EXCEPT !.entry = "build", !.input_path = INPUT,
                                 !.output_path = DEST, !.logo_path = logo,
                                 !.overlay_text = text, !.font_path = fnt,
                                 !.audio_enabled = ae]
        /\ font = fnt
    /\ \E x \in RngStates : params = _pick_params(x)
    /\ audio_present \in BOOLEAN
    /\ use_rb \in BOOLEAN
    /\ td = 1
    /\ cmd = NoCmd
    /\ invoked = << >>
    /\ outs = << >>
    /\ result = NoResult
    /\ wresult = NoResult
    /\ stats = NoStats
    /\ disk = DiskWith(FALSE)
    /\ tmpDirs = {1}
    /\ rng = 0
    /\ ncalls = 0
    /\ seen = << >>

\* unique.py 133-225: one call of _build_cmd with the arguments drawn
    /\ MainNotRunning
BuildStep ==
    /\ pc = "args"
    /\ LET b == Build(disk, rng, call, font, params, audio_present, use_rb, td)
       IN  /\ cmd' = b.cmd
           /\ disk' = b.disk
           /\ rng' = b.rng
    /\ pc' = "built"
    /\ stats' = [stats EXCEPT !.builds = @ + 1]
    /\ UNCHANGED << call, font, params, audio_present, use_rb, td, invoked, outs,
                    result, wresult, tmpDirs, ncalls, seen >>
    /\ UNCHANGED mainVars

NextBuild == BuildStep

SpecBuild == InitBuild /\ [][NextBuild]_vars

(***************************************************************************)
(* Properties                                                              *)
(***************************************************************************)

\* whether the graph of argument list c has a filter of the given name
HasOp(c, name) ==
    \E k \in 1..Len(c.fc_parts) :
        \E i \in 1..Len(c.fc_parts[k].ops) : c.fc_parts[k].ops[i].name = name

\* the phrases that, together with the stage's name, mark the stage as unavailable
UnavailablePhrases ==
    { S_no_such_filter, S_filter_not_found, S_invalid_argument, S_error_initializing_filter }

\* the text contains "rubberband" and one of the phrases, in any letter case
NamesUnavailableStage(text) ==
    LET low == Lower(text)
    IN  \E ph \in UnavailablePhrases : Contains(low, S_rubberband) /\ Contains(low, ph)

\* C1: ffmpeg is run a second time (or a second run is being prepared) only if
\* the first run exited non-zero, the rubberband stage was enabled and part of
\* the graph that failed, audio processing was active (enabled by the caller
\* and the probe found an audio stream), and the first run's stderr contains,
\* in any letter case, "rubberband" and one of the four phrases.
C1_FallbackOnlyWhenAllHold ==
    (Len(invoked) >= 2 \/ pc = "run2") =>
        /\ outs[1].returncode # 0
        /\ USE_RUBBERBAND
        /\ HasOp(IF Len(invoked) >= 1 THEN invoked[1] ELSE cmd, "rubberband")
        /\ call.audio_enabled
        /\ audio_present
        /\ NamesUnavailableStage(outs[1].stderr)

\* a call that ran ffmpeg twice, the first run failing with an upper-case
\* diagnostic that names the stage
C1_Witness ==
    /\ pc = "done"
    /\ Len(invoked) = 2
    /\ outs[1].stderr = ERR_FilterNotFound

\* C2: a call runs ffmpeg at most twice; the graph of the second run (and of
\* a second run being prepared) has no rubberband stage but is otherwise an
\* audio graph; a call whose second run failed has ended without a further
\* run; and a call whose first run met the retry test, and whose rebuild did
\* not itself fail, has run ffmpeg exactly twice by the time it ends.
C2_AtMostTwoRuns ==
    /\ Len(invoked) <= 2
    /\ Len(outs) = Len(invoked)
    /\ pc = "run2" => (Len(invoked) = 1 /\ ~HasOp(cmd, "rubberband"))
    /\ Len(invoked) = 2 =>
        /\ ~HasOp(invoked[2], "rubberband")
        /\ HasOp(invoked[2], "atempo")
        /\ pc = "done"
    /\ ( /\ pc = "done"
         /\ Len(outs) >= 1
         /\ outs[1].returncode # 0
         /\ result.exc # "OSError"
         /\ HasOp(invoked[1], "rubberband")
         /\ NamesUnavailableStage(outs[1].stderr) ) => Len(invoked) = 2

\* a call whose retry failed too, with a diagnostic that would match again
C2_Witness ==
    /\ pc = "done"
    /\ Len(invoked) = 2
    /\ outs[2].returncode # 0
    /\ NamesUnavailableStage(outs[2].stderr)

\* the outcome of the last run of the call
LastOutcome == outs[Len(outs)]

\* the call's last run failed and is not followed by the fallback: a first
\* failure the retry test does not recognise, or a failure of the retry
EndedInFailure ==
    /\ pc = "done"
    /\ Len(outs) >= 1
    /\ LastOutcome.returncode # 0
    /\ \/ Len(outs) = 2
       \/ ~ShouldFallback(outs[1], use_rb, call.audio_enabled, audio_present)

\* C3: a call whose last run of ffmpeg exited non-zero (a first failure not
\* recognised as retryable, or a failed retry) raises the transcode error
\* (RuntimeError "ffmpeg error: ...") whose message carries the stderr text of
\* that last run, and returns no path.
C3_FailureRaisesWithDiagnostic ==
    EndedInFailure =>
        /\ result.kind = "raised"
        /\ result.exc = "RuntimeError"
        /\ result.path = NoPath
        /\ Contains(result.msg, LastOutcome.stderr)
        /\ LastOutcome.stderr # EMPTY => result.msg = S_ffmpeg_error \o LastOutcome.stderr

\* a call whose retry failed with a diagnostic other than the first run's
C3_Witness ==
    /\ EndedInFailure
    /\ Len(outs) = 2
    /\ outs[2].stderr = ERR_PixelFormat
    /\ outs[1].stderr = ERR_NoSuchFilter
    /\ result.kind = "raised"

\* C4: a file-to-file call that returns normally returns the destination
\* path, and the destination then holds a complete file, one written by a
\* run of ffmpeg that exited 0.
C4_ReturnMeansCompleteFile ==
    (pc = "done" /\ call.entry = "file" /\ result.kind = "returned") =>
        /\ result.path = call.output_path
        /\ is_file(disk, call.output_path)
        /\ disk[call.output_path] = "complete"

\* C5: when no call is in progress, no temporary directory exists and no
\* file of a temporary directory is left, however the call ended; while a
\* call runs ffmpeg its directory exists.
C5_TemporaryDirectoriesReleased ==
    /\ pc \in {"idle", "done"} =>
        /\ tmpDirs = {}
        /\ \A q \in DOMAIN disk : q.dir = 0
    /\ pc \in {"run1", "run2"} => td \in tmpDirs

\* a call through the bytes wrapper that made both directories, ran the
\* retry and raised
C5_Witness ==
    /\ pc = "done"
    /\ call.entry = "bytes"
    /\ stats.tmps = 1
    /\ Len(invoked) = 2
    /\ result.kind = "raised"
    /\ tmpDirs = {}

\* the call in progress (or just ended) was made with skip-if-exists
\* enabled while its destination existed
SkipCase == call.skip_if_exists /\ is_file(call.before, call.output_path)

\* C6: a call with skip-if-exists enabled whose destination already exists
\* ends at once: it returns the destination path, runs ffmpeg zero times,
\* runs no probe, samples no parameters and draws nothing from the random
\* source, creates no temporary directory and leaves the destination as it was.
C6_SkipIfExistsShortCircuits ==
    SkipCase =>
        /\ pc = "done"
        /\ result = Returned(call.output_path)
        /\ Len(invoked) = 0
        /\ stats.probes = 0
        /\ stats.samples = 0
        /\ stats.builds = 0
        /\ stats.tmps = 0
        /\ params = NoParams
        /\ is_file(disk, call.output_path)
        /\ disk[call.output_path] = call.before[call.output_path]

\* the second of two calls, short-circuited on the file the first one wrote
C6_Witness ==
    /\ ncalls = 2
    /\ pc = "done"
    /\ SkipCase
    /\ disk[DEST] = "complete"
    /\ result.path = DEST

\* C7: samplings with the same integer seed yield the same Parameter Set,
\* field for field, whatever was sampled or drawn from the process-wide
\* source before or between them.
C7_SameSeedSameParameters ==
    \A i, j \in 1..Len(seen) :
        (seen[i].seed # NoSeed /\ seen[i].seed = seen[j].seed) =>
            seen[i].params = seen[j].params

\* two samplings with one seed around a sampling without a seed, which
\* itself drew other values
C7_Witness ==
    \E i, k, j \in 1..Len(seen) :
        /\ i < k /\ k < j
        /\ seen[i].seed # NoSeed
        /\ seen[j].seed = seen[i].seed
        /\ seen[k].seed = NoSeed
        /\ seen[k].params # seen[i].params

\* the closed intervals of the sampling policy, in units of 10^-4 for the
\* real-valued fields, and the enumerated sets
WithinPolicy(p) ==
    /\ 10300 <= p.speed /\ p.speed <= 10700
    /\ 200 <= p.brightness /\ p.brightness <= 600
    /\ 10600 <= p.contrast /\ p.contrast <= 11200
    /\ 10300 <= p.saturation /\ p.saturation <= 11000
    /\ 8000 <= p.sharpen_strength /\ p.sharpen_strength <= 11500
    /\ 120 <= p.logo_height /\ p.logo_height <= 170
    /\ 8 <= p.logo_margin /\ p.logo_margin <= 30
    /\ 22 <= p.text_size /\ p.text_size <= 30
    /\ 10 <= p.text_margin /\ p.text_margin <= 28
    /\ 9700 <= p.vol /\ p.vol <= 10300
    /\ 40 <= p.hp /\ p.hp <= 90
    /\ 14500 <= p.lp /\ p.lp <= 18000
    /\ 800 <= p.eqf /\ p.eqf <= 3000
    /\ -15000 <= p.eqg /\ p.eqg <= 15000
    /\ 9850 <= p.pitch /\ p.pitch <= 10150
    /\ p.apply_sharpen \in BOOLEAN
    /\ p.logo_pos \in {"tl", "tr", "bl", "br"}
    /\ p.meta_mode \in {"remove", "set"}

\* C8: every Parameter Set sampled, with any seed or without one, has every
\* numeric field inside its closed interval after rounding and every
\* categorical field inside its enumerated set.
C8_ParametersWithinPolicy ==
    /\ \A i \in 1..Len(seen) : WithinPolicy(seen[i].params)
    /\ Len(seen) > 0 => params = seen[Len(seen)].params

\* a sampling without a seed whose speed rounding carries up to the upper
\* end of its interval, after an earlier sampling with a seed
C8_Witness ==
    \E i, j \in 1..Len(seen) :
        /\ i < j
        /\ seen[i].seed # NoSeed
        /\ seen[j].seed = NoSeed
        /\ seen[j].params.speed = 10700

\* the names of the audio filters
AudioOps == {"atempo", "volume", "highpass", "lowpass", "equalizer", "rubberband"}

\* whether some node of c reads the reference r
NodeReads(c, r) ==
    \E k \in 1..Len(c.fc_parts) :
        \E i \in 1..Len(c.fc_parts[k].ins) : c.fc_parts[k].ins[i] = r

\* whether some node of c produces the label n
Produces(c, n) == \E k \in 1..Len(c.fc_parts) : c.fc_parts[k].out = n

\* whether a -map of c is the reference r
Maps(c, r) == \E i \in 1..Len(c.maps) : c.maps[i] = r

\* C9: the graph built has the audio chain, and maps [aout], exactly when
\* audio is enabled and the probe found an audio stream; otherwise it has no
\* audio filter and no reference to [aout], and its second -map is the
\* optional original audio stream 0:a?.
C9_AudioChainIffActive ==
    pc = "built" =>
        LET audio == call.audio_enabled /\ audio_present
        IN  /\ Produces(cmd, "aout") <=> audio
            /\ Maps(cmd, Lbl("aout")) <=> audio
            /\ HasOp(cmd, "atempo") <=> audio
            /\ Len(cmd.maps) = 2
            /\ ~audio =>
                /\ \A n \in AudioOps : ~HasOp(cmd, n)
                /\ ~NodeReads(cmd, Lbl("aout"))
                /\ ~NodeReads(cmd, Stream(0, "a", FALSE))
                /\ cmd.maps[2] = Stream(0, "a", TRUE)

\* a build for a caller who enabled audio on a source without audio stream
C9_Witness ==
    /\ pc = "built"
    /\ call.audio_enabled
    /\ ~audio_present
    /\ use_rb
    /\ cmd.maps[2] = Stream(0, "a", TRUE)

\* the label the video chain of c ends with: the output of its last node
\* other than the audio node
LastVideoLabel(c) ==
    LET ks == { k \in 1..Len(c.fc_parts) : c.fc_parts[k].out # "aout" }
        last == CHOOSE k \in ks : \A m \in ks : m <= k
    IN  c.fc_parts[last].out

\* the reference r of node k of c resolves: to a declared input, or to a
\* label an earlier node produces
Resolves(c, k, r) ==
    IF r.kind = "stream"
    THEN r.input \in 0..(Len(c.inputs) - 1)
    ELSE \E m \in 1..(k - 1) : c.fc_parts[m].out = r.name

\* the graph of c is strictly forward-referencing: each input of a node is a
\* declared -i input or the label of an earlier node, each label is produced
\* once, input 0 is the primary media and input 1 exists only with the logo
ForwardReferencing(c) ==
    /\ \A k \in 1..Len(c.fc_parts) :
        \A i \in 1..Len(c.fc_parts[k].ins) : Resolves(c, k, c.fc_parts[k].ins[i])
    /\ \A k, m \in 1..Len(c.fc_parts) :
        k # m => c.fc_parts[k].out # c.fc_parts[m].out
    /\ c.inputs[1] = call.input_path
    /\ Len(c.inputs) = (IF HasLogo(disk, call.logo_path) THEN 2 ELSE 1)

\* C10 (as stated): in every graph built, each input of a node is a
\* declared -i input (0, and 1 only with the logo) or the label of an earlier
\* node, each label is produced once, and every -map is a label the graph
\* produces: the last video label, and [aout] only with the audio chain.
C10_EveryMapIsGraphLabel ==
    pc = "built" =>
        /\ ForwardReferencing(cmd)
        /\ cmd.maps[1] = Lbl(LastVideoLabel(cmd))
        /\ \A i \in 1..Len(cmd.maps) :
            /\ cmd.maps[i].kind = "label"
            /\ Produces(cmd, cmd.maps[i].name)

\* C10 (amended): in every graph built, each input of a node is a declared
\* -i input (0, and 1 only with the logo) or the label of an earlier node,
\* each label is produced once, the first -map is the last video label, and
\* the second -map is [aout], which the graph produces, when the audio chain
\* exists and the optional stream 0:a? of the declared input 0 when it does not.
C10_GraphForwardReferencing ==
    pc = "built" =>
        /\ ForwardReferencing(cmd)
        /\ Len(cmd.maps) = 2
        /\ cmd.maps[1] = Lbl(LastVideoLabel(cmd))
        /\ Produces(cmd, LastVideoLabel(cmd))
        /\ IF Produces(cmd, "aout")
           THEN cmd.maps[2] = Lbl("aout")
           ELSE cmd.maps[2] = Stream(0, "a", TRUE)

\* a build with the text but without the logo, with the audio chain and
\* without the pitch stage
C10_Witness ==
    /\ pc = "built"
    /\ Len(cmd.fc_parts) = 3
    /\ Produces(cmd, "vout")
    /\ Produces(cmd, "aout")
    /\ ~HasOp(cmd, "rubberband")
    /\ params.apply_sharpen

\* the argument lists the call in progress has built so far
BuiltCommands ==
    { invoked[i] : i \in 1..Len(invoked) } \cup (IF pc \in {"run1", "run2"} THEN {cmd} ELSE {})

\* the font files the drawtext nodes of argument list c name
DrawtextFonts(c) ==
    UNION { { c.fc_parts[k].ops[i].args.fontfile :
                i \in { j \in 1..Len(c.fc_parts[k].ops) : c.fc_parts[k].ops[j].name = "drawtext" } } :
            k \in 1..Len(c.fc_parts) }

\* the logo's part of argument list c: the second -i input or an overlay node
HasLogoPart(c) == Len(c.inputs) >= 2 \/ HasOp(c, "overlay")

\* the logo half of C11, and the absence of an error caused by an asset: a
\* file-to-file call raises only after a failed run of ffmpeg or, with
\* OSError, when writing the text file of a text it does draw
LogoOnlyWhenPresent ==
    /\ \A c \in BuiltCommands :
        HasLogoPart(c) =>
            /\ call.logo_path # NoPath
            /\ is_file(disk, call.logo_path)
            /\ c.inputs = << call.input_path, call.logo_path >>
    /\ (pc = "done" /\ result.kind = "raised") =>
        \/ result.exc = "RuntimeError" /\ Len(outs) >= 1 /\ LastOutcome.returncode # 0
        \/ /\ result.exc = "OSError"
           /\ call.overlay_text # NoText
           /\ font # NoPath
           /\ is_file(disk, font)

\* C11 (as stated): in a file-to-file call the drawtext node is part of a
\* built graph only if the caller supplied an overlay text and a font path
\* and the font file exists; the logo nodes and the second -i input only if
\* the caller supplied a logo path and that file exists; an asset that is
\* not supplied or does not exist causes no error.
C11_TextOnlyWithCallerFont ==
    call.entry = "file" =>
        /\ \A c \in BuiltCommands :
            HasOp(c, "drawtext") =>
                /\ call.overlay_text # NoText
                /\ call.font_path # NoPath
                /\ is_file(disk, call.font_path)
        /\ LogoOnlyWhenPresent

\* C11 (amended): as stated, except that the font of the drawtext node is
\* the caller's font when the caller names one, and otherwise the file
\* Arial.ttf beside the module; the node is part of the graph only if the
\* caller supplied an overlay text and that font file exists, and it names
\* that font.
C11_TextOnlyWithExistingFont ==
    call.entry = "file" =>
        /\ \A c \in BuiltCommands :
            HasOp(c, "drawtext") =>
                /\ call.overlay_text # NoText
                /\ LET f == IF call.font_path # NoPath THEN call.font_path ELSE ARIAL
                   IN  is_file(disk, f) /\ DrawtextFonts(c) = {f}
        /\ LogoOnlyWhenPresent

\* a call that named no font and a logo file that does not exist, drew the
\* text with Arial.ttf, left the logo out and returned
C11_Witness ==
    /\ pc = "done"
    /\ call.entry = "file"
    /\ call.overlay_text = TEXT
    /\ call.font_path = NoPath
    /\ call.logo_path = LOGO_MISSING
    /\ Len(invoked) = 1
    /\ DrawtextFonts(invoked[1]) = {ARIAL}
    /\ ~HasLogoPart(invoked[1])
    /\ result.kind = "returned"

\* a call is in progress, or has just ended, that was not short-circuited
NotShortCircuited == call.entry # "none" /\ ~SkipCase

\* the fallback transition of the call has fired
FallbackFired ==
    Len(outs) >= 1 /\ ShouldFallback(outs[1], use_rb, call.audio_enabled, audio_present)

\* every argument list the call has built carries the call's Parameter Set
BuiltFromParams == \A c \in BuiltCommands : c.fc_parts[1] = VideoNode(params)

\* while the call runs, its Parameter Set is neither changed nor sampled again
ParamsImmutable ==
    pc \in {"probe", "run1", "run2"} =>
        /\ params' = params
        /\ stats'.samples = stats.samples

\* C12 (as stated): in a call that is not short-circuited the Parameter Set
\* is sampled exactly once and, on every path, the builder is invoked with
\* it exactly one time.
C12_BuilderInvokedOnce ==
    (NotShortCircuited /\ pc \in {"run1", "run2", "done"}) =>
        /\ stats.samples = 1
        /\ stats.builds = 1
        /\ BuiltFromParams

\* C12 (amended): in a call that is not short-circuited the Parameter Set is
\* sampled exactly once and never modified while the call runs; the builder
\* is invoked with it once for the first attempt and, when the fallback
\* transition fires, a second time for the retry: twice on that path, once
\* on every other, and always with that same Parameter Set.
C12_BuilderInvokedOncePerAttempt ==
    /\ [](NotShortCircuited =>
            /\ stats.samples = 1
            /\ pc = "probe" => stats.builds = 0
            /\ pc \in {"run1", "run2", "done"} =>
                /\ stats.builds = (IF FallbackFired THEN 2 ELSE 1)
                /\ BuiltFromParams)
    /\ [][ParamsImmutable]_vars

\* a file-to-file call that went through the fallback retry: two builds
\* from the one Parameter Set
C12_Witness ==
    /\ pc = "done"
    /\ call.entry = "file"
    /\ ~SkipCase
    /\ Len(invoked) = 2
    /\ stats.samples = 1
    /\ stats.builds = 2
    /\ invoked[1].fc_parts[1] = VideoNode(params)
    /\ invoked[2].fc_parts[1] = VideoNode(params)

\* a filter other than the pitch-shift stage
NotPitch(o) == o.name # "rubberband"

\* the nodes fc with the rubberband filter taken out of every chain
WithoutPitch(fc) ==
    [k \in 1..Len(fc) |-> [fc[k] EXCEPT !.ops = SelectSeq(@, NotPitch)]]

\* the argument list built for the retry, once the fallback has fired
RetryCommand == IF Len(invoked) >= 2 THEN invoked[2] ELSE cmd

\* C14: when the fallback transition fires, the call has probed once and
\* sampled once; the retry's argument list has the inputs, the output path
\* and the -map directives of the failed attempt, and its filter graph is
\* the failed attempt's graph, built from the same Parameter Set, with the
\* rubberband filter removed from the audio chain and nothing else changed.
C14_RetryGraphDiffersOnlyInPitch ==
    (Len(invoked) >= 2 \/ pc = "run2") =>
        /\ stats.probes = 1
        /\ stats.samples = 1
        /\ RetryCommand.inputs = invoked[1].inputs
        /\ RetryCommand.inputs[1] = call.input_path
        /\ RetryCommand.out = invoked[1].out
        /\ RetryCommand.out = call.output_path
        /\ RetryCommand.maps = invoked[1].maps
        /\ HasOp(invoked[1], "rubberband")
        /\ RetryCommand.fc_parts = WithoutPitch(invoked[1].fc_parts)
        /\ RetryCommand.fc_parts[1] = VideoNode(params)
        /\ HasLogoPart(RetryCommand) = HasLogo(disk, call.logo_path)
        /\ HasOp(RetryCommand, "drawtext") = HasText(disk, call.overlay_text, font)
        /\ HasOp(RetryCommand, "atempo")

\* a retry of a graph with the logo, the text and the audio chain, in a
\* call whose metadata comment was drawn again for the second build
C14_Witness ==
    /\ pc = "done"
    /\ Len(invoked) = 2
    /\ HasLogoPart(invoked[2])
    /\ HasOp(invoked[2], "drawtext")
    /\ Len(invoked[2].fc_parts) = Len(invoked[1].fc_parts)
    /\ invoked[2].fc_parts # invoked[1].fc_parts
    /\ invoked[2].meta # invoked[1].meta
    /\ result.kind = "returned"

(***************************************************************************)
(* auto_post.py: the orchestration.  main reads the setup sheet and the    *)
(* posts sheet and, for each row to post, downloads the video, makes one   *)
(* variant per user and uploads it to each of the user's platforms.        *)
(* Cell values, user names and file names are sequences of one-character   *)
(* strings; time is in whole minutes.                                      *)
(***************************************************************************)
\* 'TRUE'
T_TRUE ==
    <<"T", "R", "U", "E">>
\* 'true '
T_true_sp ==
    <<"t", "r", "u", "e", " ">>
\* 'FALSE'
T_FALSE ==
    <<"F", "A", "L", "S", "E">>
\* 'posted'
T_posted ==
    <<"p", "o", "s", "t", "e", "d">>
\* ' Posted'
T_Posted_sp ==
    <<" ", "P", "o", "s", "t", "e", "d">>
\* 'processing'
T_processing ==
    <<"p", "r", "o", "c", "e", "s", "s", "i", "n", "g">>
\* 'failed'
T_failed ==
    <<"f", "a", "i", "l", "e", "d">>
\* 'partial'
T_partial ==
    <<"p", "a", "r", "t", "i", "a", "l">>
\* 'ann'
U_ann ==
    <<"a", "n", "n">>
\* ' ann'
U_ann_sp ==
    <<" ", "a", "n", "n">>
\* 'bo b'
U_bo_b ==
    <<"b", "o", " ", "b">>
\* 'user'
S_user ==
    <<"u", "s", "e", "r">>
\* 'unique_'
S_unique_ ==
    <<"u", "n", "i", "q", "u", "e", "_">>
\* '.mp4'
S_mp4 ==
    <<".", "m", "p", "4">>
\* '_'
S_underscore ==
    <<"_">>
\* 'input.mp4'
S_input_mp4 ==
    <<"i", "n", "p", "u", "t", ".", "m", "p", "4">>
\* 'TEST_RUN'
S_TEST_RUN ==
    <<"T", "E", "S", "T", "_", "R", "U", "N">>
\* 'clip'
S_clip ==
    <<"c", "l", "i", "p">>
\* '._-'
S_safe_punct ==
    <<".", "_", "-">>
\* '0123456789'
Digits ==
    <<"0", "1", "2", "3", "4", "5", "6", "7", "8", "9">>
\* the drive file ids of the sample links: 11 and 6 characters
ID_long ==
    <<"1", "A", "b", "C", "_", "d", "E", "f", "-", "9", "x">>
ID_short ==
    <<"a", "b", "c", "1", "2", "3">>
NoId == << >>

Chars(s) == { s[i] : i \in 1..Len(s) }

\* str.strip(), for the blank as the only whitespace
Strip(s) ==
    LET keep == { i \in 1..Len(s) : s[i] # " " }
    IN  IF keep = {} THEN << >>
        ELSE SubSeq(s, CHOOSE i \in keep : \A j \in keep : i <= j,
                       CHOOSE i \in keep : \A j \in keep : i >= j)

\* str.upper() on one character
UpperChar(c) ==
    IF \E i \in 1..Len(LowerChars) : LowerChars[i] = c
    THEN UpperChars[CHOOSE i \in 1..Len(LowerChars) : LowerChars[i] = c]
    ELSE c

\* str.upper()
Upper(s) == [i \in 1..Len(s) |-> UpperChar(s[i])]

\* auto_post.py 79-80: is_true, for the text a sheet gives for a cell
is_true(v) == Upper(Strip(v)) = T_TRUE

\* auto_post.py 304: str(...).strip().lower()
StatusVal(v) == Lower(Strip(v))

\* auto_post.py 50-51: the default of PROCESSING_STALE_MINUTES
PROCESSING_STALE_MINUTES == 10

\* the texts of the result column: empty, "processing since <timestamp>"
\* with a timestamp that parses or not, the summary main writes, any other
\* text
ResultEmpty == [kind |-> "empty"]
ProcessingSince(ts) == [kind |-> "since", parsable |-> TRUE, ts |-> ts]
SinceGarbage == [kind |-> "since", parsable |-> FALSE, ts |-> 0]
ResultText(t) == [kind |-> "text", text |-> t]
Summary(ok, fail, items) == [kind |-> "summary", ok |-> ok, fail |-> fail, items |-> items]

\* auto_post.py 161-175: is_processing_stale at time now
is_processing_stale(result_val, now) ==
    IF result_val.kind # "since" THEN FALSE
    ELSE IF ~result_val.parsable THEN FALSE
    ELSE (now - result_val.ts) >= PROCESSING_STALE_MINUTES

\* the values of the drive_file_link column: nothing, a bare id, a URL with
\* /file/d/<id>, a URL with ?id=<id>, another URL
Link(shape, host, id) == [shape |-> shape, host |-> host, id |-> id]

\* auto_post.py 93-105: drive_url_to_file_id; host says whether the value
\* contains "drive.google.com"
drive_url_to_file_id(value) ==
    IF value.shape = "empty" THEN NoId
    ELSE IF ~value.host /\ value.shape = "bare" /\ Len(value.id) >= 10 THEN value.id
    ELSE IF value.shape = "file_d" THEN value.id
    ELSE IF value.shape = "id_param" THEN value.id
    ELSE NoId

\* the characters safe_filename keeps: [A-Za-z0-9._-]
SafeChars == Chars(UpperChars) \cup Chars(LowerChars) \cup Chars(Digits) \cup Chars(S_safe_punct)

\* re.sub(r"[^A-Za-z0-9._-]+", "_", s): each run of other characters
\* becomes one underscore
RECURSIVE SubUnsafe(_, _)
SubUnsafe(s, inRun) ==
    IF s = << >> THEN << >>
    ELSE IF Head(s) \in SafeChars THEN << Head(s) >> \o SubUnsafe(Tail(s), FALSE)
    ELSE (IF inRun THEN << >> ELSE S_underscore) \o SubUnsafe(Tail(s), TRUE)

\* auto_post.py 87-90: safe_filename
safe_filename(s) ==
    LET t == SubUnsafe(Strip(s), FALSE)
        cut == IF Len(t) > 80 THEN SubSeq(t, 1, 80) ELSE t
    IN  IF cut = << >> THEN S_user ELSE cut

\* auto_post.py 178-181: make_unique_seed, the digest of "file_id:user",
\* kept as the pair that determines it
make_unique_seed(file_id, user) == << file_id, user >>

\* auto_post.py 67
PLATFORM_COLUMNS == << "instagram", "tiktok" >>

\* auto_post.py 143-145: the destinations of one setup record
RECURSIVE PlatformDests(_, _, _)
PlatformDests(rn, user, cols) ==
    IF cols = << >> THEN << >>
    ELSE (IF is_true(rn[Head(cols)])
          THEN << [user |-> user, platform |-> Head(cols)] >>
          ELSE << >>) \o PlatformDests(rn, user, Tail(cols))

\* auto_post.py 134-146: read_setup_destinations
RECURSIVE read_setup_destinations(_)
read_setup_destinations(records) ==
    IF records = << >> THEN << >>
    ELSE LET user == Strip(Head(records).users)
         IN  (IF user = << >> THEN << >>
              ELSE PlatformDests(Head(records), user, PLATFORM_COLUMNS))
             \o read_setup_destinations(Tail(records))

\* A grouping step that opens a new entry for every destination.
AddDestUngrouped(by_user, d) ==
    Append(by_user, [user |-> d.user, platforms |-> << d.platform >>])

\* auto_post.py 152-157: one step of the grouping; by_user is the dict as
\* the sequence of its items in insertion order
AddDest(by_user, d) ==
    IF \E i \in 1..Len(by_user) : by_user[i].user = d.user
    THEN [i \in 1..Len(by_user) |->
            IF by_user[i].user = d.user /\ d.platform \notin Chars(by_user[i].platforms)
            THEN [by_user[i] EXCEPT !.platforms = Append(@, d.platform)]
            ELSE by_user[i]]
    ELSE Append(by_user, [user |-> d.user, platforms |-> << d.platform >>])

\* auto_post.py 149-158: group_destinations_by_user
RECURSIVE GroupInto(_, _)
GroupInto(by_user, dests) ==
    IF dests = << >> THEN by_user
    ELSE GroupInto(AddDest(by_user, Head(dests)), Tail(dests))

group_destinations_by_user(dests) == GroupInto(<< >>, dests)

\* auto_post.py 42-43: MAX_POSTS_PER_RUN is None when the variable is unset
NoLimit == -1

\* the rows of the posts sheet, not counting the header row
MaxRows == 2

\* the clock of the run, in minutes; the timestamps of the sample rows lie
\* before it
Now == PROCESSING_STALE_MINUTES + 1

SetupRow(users, ig, tt) == [users |-> users, instagram |-> ig, tiktok |-> tt]

\* the setup sheets: two users, the first with both platforms; one user on
\* two records and a record without a user; no destination at all
Setups ==
    { << SetupRow(U_ann, T_TRUE, T_TRUE), SetupRow(U_bo_b, T_FALSE, T_true_sp) >>,
      << SetupRow(U_ann, T_TRUE, T_FALSE), SetupRow(EMPTY, T_TRUE, T_TRUE),
         SetupRow(U_ann_sp, T_TRUE, T_TRUE) >>,
      << SetupRow(U_ann, T_FALSE, EMPTY) >> }

Cells(to_post, status, result_val, link) ==
    [to_post |-> to_post, status |-> status, result |-> result_val, drive_file_link |-> link]

\* the rows a posts sheet may hold
RowKinds ==
    { Cells(T_TRUE, EMPTY, ResultEmpty, Link("file_d", TRUE, ID_long)),
      Cells(T_TRUE, EMPTY, ResultEmpty, Link("empty", FALSE, NoId)),
      Cells(T_true_sp, T_failed, Summary(0, 1, << >>), Link("bare", FALSE, ID_short)),
      Cells(T_TRUE, T_Posted_sp, Summary(1, 0, << >>), Link("file_d", TRUE, ID_long)),
      Cells(T_FALSE, EMPTY, ResultEmpty, Link("file_d", TRUE, ID_long)),
      Cells(T_TRUE, T_processing, ProcessingSince(0), Link("bare", FALSE, ID_long)),
      Cells(T_TRUE, T_processing, ProcessingSince(1), Link("id_param", TRUE, ID_long)),
      Cells(T_TRUE, T_processing, ProcessingSince(2), Link("file_d", TRUE, ID_long)),
      Cells(T_TRUE, T_processing, SinceGarbage, Link("file_d", TRUE, ID_long)) }

NoRow == [idx |-> 1, fate |-> "none", before |-> << >>, cells |-> << >>]

NoLoc ==
    [by_user |-> << >>, row_idx |-> 1, posts_done |-> 0, file_id |-> NoId, ok |-> 0,
     fail |-> 0, results_compact |-> << >>, input_path |-> NoPath, base |-> EMPTY,
     ui |-> 0, pi |-> 0, out_path |-> NoPath]

NoLog == [calls |-> << >>, uploads |-> << >>]

\* main is entered: the environment is read, nothing is done yet
InitMain ==
    /\ pc = "idle"
    /\ call = NoCall
    /\ font = NoPath
    /\ params = NoParams
    /\ audio_present = FALSE
    /\ use_rb = FALSE
    /\ td = 0
    /\ cmd = NoCmd
    /\ invoked = << >>
    /\ outs = << >>
    /\ result = NoResult
    /\ wresult = NoResult
    /\ stats = NoStats
    /\ disk = DiskWith(TRUE)
    /\ tmpDirs = {}
    /\ rng = 0
    /\ ncalls = 0
    /\ seen = << >>
    /\ mpc = "start"
    /\ \E test \in BOOLEAN, unique \in BOOLEAN, limit \in {NoLimit, 1},
          setup \in Setups, nrows \in 0..MaxRows :
        env = [TEST_RUN |-> test, ENABLE_UNIQUE |-> unique, MAX_POSTS_PER_RUN |-> limit,
               setup |-> setup, nrows |-> nrows, now |-> Now]
    /\ row = NoRow
    /\ history = << >>
    /\ loc = NoLoc
    /\ log = NoLog

\* auto_post.py 264-294: the destinations and the posts are read; without a
\* destination or without a row main returns
Start ==
    /\ mpc = "start"
    /\ LET dests == read_setup_destinations(env.setup)
       IN  IF dests = << >> \/ env.nrows = 0
           THEN mpc' = "finished" /\ loc' = loc
           ELSE /\ mpc' = "loop"
                /\ loc' = [loc EXCEPT !.by_user = group_destinations_by_user(dests)]
    /\ UNCHANGED << env, row, history, log >>
    /\ UNCHANGED engineVars

\* auto_post.py 286-289: the cells after the first n of the set_cell calls
\* ups, each a pair of column and value
SetCells(cells, ups, n) ==
    [c \in DOMAIN cells |->
        LET ks == { k \in 1..n : ups[k][1] = c }
        IN  IF ks = {} THEN cells[c]
            ELSE ups[CHOOSE k \in ks : \A j \in ks : j <= k][2]]

\* auto_post.py 300-309: the row is one to process
ShouldPick(rn, now) ==
    /\ is_true(rn.to_post)
    /\ StatusVal(rn.status) # T_posted
    /\ ~(StatusVal(rn.status) = T_processing /\ ~is_processing_stale(rn.result, now))

\* a record of the history sheet
HistoryRow(row_idx, user, platform, file_id, status) ==
    [row |-> row_idx, user |-> user, platform |-> platform, file_id |-> file_id,
     status |-> status]

\* auto_post.py 297-299: the loop ends after the last row, or at the limit
EndOfRows ==
    /\ mpc = "loop"
    /\ \/ loc.row_idx >= env.nrows + 1
       \/ env.MAX_POSTS_PER_RUN # NoLimit /\ loc.posts_done >= env.MAX_POSTS_PER_RUN
    /\ mpc' = "finished"
    /\ UNCHANGED << env, row, history, loc, log >>
    /\ UNCHANGED engineVars

\* the next row exists and the limit is not reached
AtNextRow ==
    /\ mpc = "loop"
    /\ loc.row_idx < env.nrows + 1
    /\ ~(env.MAX_POSTS_PER_RUN # NoLimit /\ loc.posts_done >= env.MAX_POSTS_PER_RUN)

\* auto_post.py 301-309: the row is passed over
SkipRow ==
    /\ AtNextRow
    /\ \E rn \in RowKinds :
        /\ ~ShouldPick(rn, env.now)
        /\ row' = [idx |-> loc.row_idx + 1, fate |-> "skipped", before |-> rn, cells |-> rn]
    /\ loc' = [loc EXCEPT !.row_idx = @ + 1]
    /\ history' = << >>
    /\ log' = NoLog
    /\ UNCHANGED << mpc, env >>
    /\ UNCHANGED engineVars

\* auto_post.py 317-324: no file id in the link: the row is marked failed.
\* Of the three set_cell calls and the append to the history, the first n
\* succeed; a call that raises ends main.
RejectRow ==
    /\ AtNextRow
    /\ \E rn \in RowKinds, n \in 0..4 :
        LET idx == loc.row_idx + 1
            file_id == drive_url_to_file_id(rn.drive_file_link)
            ups == << << "status", T_failed >>, << "result", ResultText("no file id") >>,
                      << "to_post", T_FALSE >> >>
            done == SetCells(rn, ups, IF n > 3 THEN 3 ELSE n)
        IN  /\ ShouldPick(rn, env.now)
            /\ file_id = NoId
            /\ row' = [idx |-> idx, fate |-> IF n = 4 THEN "completed" ELSE "picked",
                       before |-> rn, cells |-> done]
            /\ history' = IF n = 4
                          THEN << HistoryRow(idx, EMPTY, "", NoId, T_failed) >>
                          ELSE << >>
            /\ loc' = [loc EXCEPT !.row_idx = idx, !.file_id = file_id, !.ok = 0,
                                  !.fail = 0, !.results_compact = << >>,
                                  !.posts_done = IF n = 4 THEN @ + 1 ELSE @]
            /\ mpc' = IF n = 4 THEN "loop" ELSE "aborted"
    /\ log' = NoLog
    /\ UNCHANGED env
    /\ UNCHANGED engineVars

\* auto_post.py 311-334: the row is taken and marked as being processed
PickRow ==
    /\ AtNextRow
    /\ \E rn \in RowKinds, n \in 0..2 :
        LET idx == loc.row_idx + 1
            file_id == drive_url_to_file_id(rn.drive_file_link)
            ups == << << "status", T_processing >>,
                      << "result", ProcessingSince(env.now) >> >>
        IN  /\ ShouldPick(rn, env.now)
            /\ file_id # NoId
            /\ row' = [idx |-> idx, fate |-> "picked", before |-> rn,
                       cells |-> SetCells(rn, ups, n)]
            /\ loc' = [loc EXCEPT !.row_idx = idx, !.file_id = file_id, !.ok = 0,
                                  !.fail = 0, !.results_compact = << >>]
            /\ mpc' = IF n = 2 THEN "download" ELSE "aborted"
    /\ history' = << >>
    /\ log' = NoLog
    /\ UNCHANGED env
    /\ UNCHANGED engineVars

\* the temporary directory of the row (auto_post.py 336)
MainTmp == 1

\* auto_post.py 336-358: the input file: an empty file in a test run,
\* else the download, whose failure marks the row failed
Download ==
    /\ mpc = "download"
    /\ \E downloaded \in BOOLEAN, n \in 0..4 :
        LET ups == << << "status", T_failed >>, << "result", ResultText("download failed") >>,
                      << "to_post", T_FALSE >> >>
        IN  IF env.TEST_RUN \/ downloaded
            THEN /\ n = 4
                 /\ loc' = [loc EXCEPT
                        !.input_path = IF env.TEST_RUN
                                       THEN InTmp(MainTmp, S_TEST_RUN \o S_mp4)
                                       ELSE InTmp(MainTmp, S_input_mp4),
                        !.base = IF env.TEST_RUN THEN S_TEST_RUN ELSE S_clip,
                        !.ui = 1]
                 /\ mpc' = "user"
                 /\ UNCHANGED << row, history >>
            ELSE /\ row' = [row EXCEPT !.cells = SetCells(@, ups, IF n > 3 THEN 3 ELSE n),
                                       !.fate = IF n = 4 THEN "completed" ELSE @]
                 /\ history' = IF n = 4
                               THEN Append(history, HistoryRow(row.idx, EMPTY, "", loc.file_id, T_failed))
                               ELSE history
                 /\ loc' = [loc EXCEPT !.posts_done = IF n = 4 THEN @ + 1 ELSE @]
                 /\ mpc' = IF n = 4 THEN "loop" ELSE "aborted"
    /\ UNCHANGED << env, log >>
    /\ UNCHANGED engineVars

\* an entry of results_compact
Compact(platform, user, word) == [platform |-> platform, user |-> user, word |-> word]

\* auto_post.py 405-410: the handler of the user's try block: each of the
\* user's platforms is counted and recorded as failed.  k appends succeed;
\* if that is not all of them, the next one raises and ends main.
OuterExcept(l, h, k) ==
    LET user == l.by_user[l.ui].user
        platforms == l.by_user[l.ui].platforms
        all == k = Len(platforms)
    IN  [loc |-> [l EXCEPT !.fail = @ + (IF all THEN k ELSE k + 1),
                           !.results_compact =
                               @ \o [i \in 1..k |-> Compact(platforms[i], user, "fail")],
                           !.ui = IF all THEN @ + 1 ELSE @],
         history |-> h \o [i \in 1..k |->
                             HistoryRow(row.idx, user, platforms[i], l.file_id, T_failed)],
         mpc |-> IF all THEN "user" ELSE "aborted"]

\* auto_post.py 369: td_path / f"unique_{user_safe}.mp4"
OutPath(user) == InTmp(MainTmp, S_unique_ \o safe_filename(user) \o S_mp4)

\* auto_post.py 360-378, 405-410: the user's variant: the input itself in a
\* test run or with ENABLE_UNIQUE off, else one call of uniquify_video_file
MakeVariant ==
    /\ mpc = "user"
    /\ loc.ui <= Len(loc.by_user)
    /\ LET user == loc.by_user[loc.ui].user
           platforms == loc.by_user[loc.ui].platforms
       IN  IF env.TEST_RUN \/ ~env.ENABLE_UNIQUE
           THEN /\ loc' = [loc EXCEPT !.out_path = loc.input_path, !.pi = 1]
                /\ mpc' = "platform"
                /\ UNCHANGED << history, log >>
           ELSE \E raised \in BOOLEAN, k \in 0..Len(platforms) :
                LET out_path == OutPath(user)
                    l1 == [loc EXCEPT !.out_path = out_path, !.pi = 1]
                    res == IF raised THEN TranscodeError(<< Outcome(1, EMPTY, EMPTY) >>)
                           ELSE Returned(out_path)
                    e == OuterExcept(l1, history, k)
                IN  /\ log' = [log EXCEPT !.calls = Append(@,
                                  [user |-> user, input_path |-> loc.input_path,
                                   output_path |-> out_path,
                                   seed |-> make_unique_seed(loc.file_id, user),
                                   skip_if_exists |-> FALSE, result |-> res])]
                    /\ IF raised
                       THEN loc' = e.loc /\ history' = e.history /\ mpc' = e.mpc
                       ELSE /\ k = 0
                            /\ loc' = l1
                            /\ mpc' = "platform"
                            /\ history' = history
    /\ UNCHANGED << env, row >>
    /\ UNCHANGED engineVars

\* auto_post.py 362: f"{base}_{user_safe}.mp4"
OutFilename(base, user) == base \o S_underscore \o safe_filename(user) \o S_mp4

\* auto_post.py 380-403: one platform of the user.  The upload returns or
\* raises (a test run uploads nothing and counts a success); the append of
\* the "posted" record and the append of the "failed" record each succeed
\* or raise.  An exception in the try block is handled at 398-403; one
\* raised by that handler reaches the handler of the user's block.
Upload ==
    /\ mpc = "platform"
    /\ loc.pi <= Len(loc.by_user[loc.ui].platforms)
    /\ \E returned \in BOOLEAN, posted_ok \in BOOLEAN, failed_ok \in BOOLEAN,
          k \in 0..Len(loc.by_user[loc.ui].platforms) :
        LET user == loc.by_user[loc.ui].user
            platform == loc.by_user[loc.ui].platforms[loc.pi]
            l1 == IF returned THEN [loc EXCEPT !.ok = @ + 1] ELSE loc
            l2 == [l1 EXCEPT !.fail = @ + 1]
            e == OuterExcept(l2, history, k)
        IN  /\ env.TEST_RUN => returned
            /\ log' = [log EXCEPT !.uploads = Append(@,
                          [user |-> user, platform |-> platform, video_path |-> loc.out_path,
                           filename |-> OutFilename(loc.base, user), returned |-> returned,
                           simulated |-> env.TEST_RUN])]
            /\ IF returned /\ posted_ok
               THEN /\ failed_ok /\ k = 0
                    /\ loc' = [l1 EXCEPT !.pi = @ + 1,
                                  !.results_compact = Append(@, Compact(platform, user, "ok"))]
                    /\ history' = Append(history,
                                    HistoryRow(row.idx, user, platform, loc.file_id, T_posted))
                    /\ mpc' = mpc
               ELSE /\ ~returned => posted_ok
                    /\ IF failed_ok
                       THEN /\ k = 0
                            /\ loc' = [l2 EXCEPT !.pi = @ + 1,
                                  !.results_compact = Append(@, Compact(platform, user, "fail"))]
                            /\ history' = Append(history,
                                    HistoryRow(row.idx, user, platform, loc.file_id, T_failed))
                            /\ mpc' = mpc
                       ELSE loc' = e.loc /\ history' = e.history /\ mpc' = e.mpc
    /\ UNCHANGED << env, row >>
    /\ UNCHANGED engineVars

\* auto_post.py 380: the user's platforms are done; on to the next user
NextUser ==
    /\ mpc = "platform"
    /\ loc.pi > Len(loc.by_user[loc.ui].platforms)
    /\ loc' = [loc EXCEPT !.ui = @ + 1]
    /\ mpc' = "user"
    /\ UNCHANGED << env, row, history, log >>
    /\ UNCHANGED engineVars

\* auto_post.py 412
FinalStatus(ok, fail) ==
    IF ok > 0 /\ fail = 0 THEN T_posted
    ELSE IF ok > 0 THEN T_partial
    ELSE T_failed

\* auto_post.py 412-417: after the last user the row gets its final status;
\* of the three set_cell calls the first n succeed
FinishRow ==
    /\ mpc = "user"
    /\ loc.ui > Len(loc.by_user)
    /\ \E n \in 0..3 :
        LET ups == << << "status", FinalStatus(loc.ok, loc.fail) >>,
                      << "result", Summary(loc.ok, loc.fail, loc.results_compact) >>,
                      << "to_post", T_FALSE >> >>
        IN  /\ row' = [row EXCEPT !.cells = SetCells(@, ups, n),
                                  !.fate = IF n = 3 THEN "completed" ELSE @]
            /\ loc' = [loc EXCEPT !.posts_done = IF n = 3 THEN @ + 1 ELSE @]
            /\ mpc' = IF n = 3 THEN "loop" ELSE "aborted"
    /\ UNCHANGED << env, history, log >>
    /\ UNCHANGED engineVars

NextMain ==
    \/ Start
    \/ EndOfRows
    \/ SkipRow
    \/ RejectRow
    \/ PickRow
    \/ Download
    \/ MakeVariant
    \/ Upload
    \/ NextUser
    \/ FinishRow

SpecMain == InitMain /\ [][NextMain]_vars

(***************************************************************************)
(* Properties of auto_post.main                                            *)
(***************************************************************************)

\* the platforms by_user gives for a user
PlatformsOfUser(u) ==
    UNION { Chars(loc.by_user[i].platforms) :
              i \in { j \in 1..Len(loc.by_user) : loc.by_user[j].user = u } }

\* the calls of uniquify_video_file made for user u in the row at hand
CallsFor(u) == { i \in 1..Len(log.calls) : log.calls[i].user = u }

\* the calls of the upload made for user u in the row at hand
UploadsFor(u) == { i \in 1..Len(log.uploads) : log.uploads[i].user = u }

\* main is past user u in the row at hand
PastUser(u) ==
    \/ mpc \in {"loop", "finished"}
    \/ mpc \in {"user", "platform"} /\ \A j \in 1..Len(loc.by_user) :
            loc.by_user[j].user = u => j < loc.ui

\* C13: in a row, uniquify_video_file is called at most once for a user;
\* all uploads for the user use one path, the output path of that call when
\* there is one; when the call raised, no upload is made for the user and,
\* once main is past the user (it is, unless recording the failure itself
\* raised and ended the run), each platform of the user is recorded in the
\* history and in the summary as failed.
C13_OneVariantPerUser ==
    mpc \in {"user", "platform", "loop", "finished", "aborted"} =>
        \A i \in 1..Len(loc.by_user) :
            LET u == loc.by_user[i].user IN
            /\ Cardinality(CallsFor(u)) <= 1
            /\ \A a \in UploadsFor(u), b \in UploadsFor(u) :
                log.uploads[a].video_path = log.uploads[b].video_path
            /\ \A c \in CallsFor(u) :
                /\ log.calls[c].output_path = OutPath(u)
                /\ \A a \in UploadsFor(u) :
                    /\ log.uploads[a].video_path = log.calls[c].output_path
                    /\ log.calls[c].result.kind = "returned"
                /\ log.calls[c].result.kind = "raised" =>
                    /\ UploadsFor(u) = {}
                    /\ mpc # "aborted" =>
                        /\ PastUser(u)
                        /\ \A p \in PlatformsOfUser(u) :
                            /\ \E h \in 1..Len(history) :
                                history[h] = HistoryRow(row.idx, u, p, loc.file_id, T_failed)
                            /\ \E r \in 1..Len(loc.results_compact) :
                                loc.results_compact[r] = Compact(p, u, "fail")

\* a finished row in which the first user's variant went to both of the
\* user's platforms from its one path and the second user's call raised:
\* that user's platform is recorded as failed and the row ends partial
C13_Witness ==
    /\ mpc = "loop"
    /\ row.fate = "completed"
    /\ Len(log.calls) = 2
    /\ log.calls[1].user = U_ann
    /\ log.calls[1].result.kind = "returned"
    /\ Cardinality(UploadsFor(U_ann)) = 2
    /\ \A a \in UploadsFor(U_ann) : log.uploads[a].video_path = OutPath(U_ann)
    /\ log.calls[2].user = U_bo_b
    /\ log.calls[2].result.kind = "raised"
    /\ UploadsFor(U_bo_b) = {}
    /\ history[Len(history)] = HistoryRow(row.idx, U_bo_b, "tiktok", loc.file_id, T_failed)
    /\ row.cells.status = T_partial

\* the targets of the row at hand whose upload returned (in a test run:
\* was simulated)
Succeeded ==
    { << log.uploads[a].user, log.uploads[a].platform >> :
        a \in { b \in 1..Len(log.uploads) : log.uploads[b].returned } }

\* the targets of the row at hand whose upload raised, and those of the
\* users whose variant could not be made
FailedTargets ==
    { << log.uploads[a].user, log.uploads[a].platform >> :
        a \in { b \in 1..Len(log.uploads) : ~log.uploads[b].returned } }
    \cup UNION { { << log.calls[c].user, p >> : p \in PlatformsOfUser(log.calls[c].user) } :
                 c \in { d \in 1..Len(log.calls) : log.calls[d].result.kind = "raised" } }

\* the row was one to pick up: to_post is TRUE, the status is not posted,
\* and it is not a processing row whose "processing since" time is not stale
WasToPickUp(rn) ==
    /\ Upper(Strip(rn.to_post)) = T_TRUE
    /\ Lower(Strip(rn.status)) # T_posted
    /\ ~( /\ Lower(Strip(rn.status)) = T_processing
          /\ rn.result.kind = "since"
          /\ rn.result.parsable
          /\ env.now - rn.result.ts < PROCESSING_STALE_MINUTES )

\* C15: a row is picked up only if it was one to pick up; a row processed
\* to completion has to_post FALSE and the status posted exactly when some
\* target succeeded and none failed, partial exactly when some succeeded
\* and some failed, and failed when none succeeded; when main is between
\* rows or has returned, the row it picked is completed and not processing.
C15_StatusReflectsTargets ==
    /\ row.fate \in {"picked", "completed"} => WasToPickUp(row.before)
    /\ row.fate = "completed" =>
        /\ row.cells.to_post = T_FALSE
        /\ row.cells.status \in {T_posted, T_partial, T_failed}
        /\ row.cells.status = T_posted <=> (Succeeded # {} /\ FailedTargets = {})
        /\ row.cells.status = T_partial <=> (Succeeded # {} /\ FailedTargets # {})
        /\ Succeeded = {} => row.cells.status = T_failed
    /\ (mpc \in {"loop", "finished"} /\ row.fate \in {"picked", "completed"}) =>
        /\ row.fate = "completed"
        /\ row.cells.status # T_processing

====
